---------------------------- MODULE Spec2Model ----------------------------
(***************************************************************************)
(* The WhatsApp office-hours assistant of src/AutomatedWhatsApp.py: the    *)
(* polling loop main_loop and the functions it calls.                      *)
(*                                                                         *)
(* Times of day are minutes after midnight of the current day in the       *)
(* fixed zone America/New_York (02:00 is 120, 16:00 is 960).  A captured   *)
(* text is what the code reads from it: the lemmas and noun chunks spaCy   *)
(* yields, and the lexical tokens the regular expression scans.            *)
(***************************************************************************)
EXTENDS Integers, Sequences, FiniteSets, TLC

VARIABLES
    pc,          \* position of main_loop
    text,        \* text returned by read_whatsapp in this cycle
    time_start,  \* first value returned by extract_time_range_from_text
    time_end,    \* second value returned by extract_time_range_from_text
    events,      \* items returned by service.events().list(...).execute()
    free,        \* outcome of check_availability in this cycle
    sent,        \* number of replies typed into WhatsApp
    created,     \* number of events inserted into the calendar
    printed,     \* lines the program has printed
    raised,      \* the uncaught exception that ended the run, if any
    dp_lenient   \* how dateparser treats a string that is no 12-hour time

vars == <<pc, text, time_start, time_end, events, free, sent, created,
          printed, raised, dp_lenient>>

-----------------------------------------------------------------------------
(* Bounds of the model *)

\* Longest list of calendar items a query returns (the code asks for <= 10).
MaxEvents == 2
\* Most time ranges written in one text.
MaxCands == 2
\* Cap of the counters sent and created.
MaxClaims == 2

-----------------------------------------------------------------------------
(* Values *)

\* Python's None, as returned by extract_time_range_from_text.
None == -1

Tok(k, h, hasMin, m) == [k |-> k, h |-> h, hasMin |-> hasMin, m |-> m]
Num(h) == Tok("num", h, FALSE, 0)
NumM(h, m) == Tok("num", h, TRUE, m)
SepTok == Tok("sep", 0, FALSE, 0)
AmTok == Tok("am", 0, FALSE, 0)
PmTok == Tok("pm", 0, FALSE, 0)
WordTok == Tok("word", 0, FALSE, 0)

\* The verbs and topic words of message_indicates_cancellation.
cancel_keywords == {"cancel", "skip", "drop", "remove", "postpone"}
oh_keywords == {"office hours", "oh", "ta hours", "hours"}

\* keyword in chunk.text: Python's substring test, on the chunks of the model.
Contains(chunk, keyword) ==
    CASE chunk = "my office hours" -> keyword \in {"office hours", "hours"}
      [] chunk = "john" -> keyword = "oh"
      [] OTHER -> FALSE

Docs == [lemmas : {{}, {"cancel"}, {"meet"}},
         chunks : {{}, {"my office hours"}, {"lunch"}, {"john", "lunch"}}]

MkText(doc, toks) == [lemmas |-> doc.lemmas, chunks |-> doc.chunks, toks |-> toks]

\* The empty string: what read_whatsapp returns when the capture fails.
EmptyText == [lemmas |-> {}, chunks |-> {}, toks |-> <<>>]

-----------------------------------------------------------------------------
(* message_indicates_cancellation *)

message_indicates_cancellation(t) ==
    LET cancel_found == \E lemma \in t.lemmas : lemma \in cancel_keywords
        oh_found == \E chunk \in t.chunks :
                        \E keyword \in oh_keywords : Contains(chunk, keyword)
    IN  cancel_found /\ oh_found

-----------------------------------------------------------------------------
(* extract_time_range_from_text *)

\* A group captured by the pattern: digits and, with hasMin, ":" and two
\* digits.  mer is the AM/PM marker inside the string ("" for none).
RawOf(tok) == [h |-> tok.h, hasMin |-> tok.hasMin, m |-> tok.m, mer |-> ""]

\* re.findall(pattern, text): from position i on, the non-overlapping
\* occurrences of  H[:MM] \s* (to|-) \s* H[:MM]  scanned left to right.  The
\* two groups hold only the digits and the colon.
RECURSIVE FindAllFrom(_, _)
FindAllFrom(toks, i) ==
    IF i > Len(toks) THEN <<>>
    ELSE IF /\ i + 2 <= Len(toks)
            /\ toks[i].k = "num"
            /\ toks[i + 1].k = "sep"
            /\ toks[i + 2].k = "num"
         THEN <<[start_raw |-> RawOf(toks[i]), end_raw |-> RawOf(toks[i + 2])]>>
                  \o FindAllFrom(toks, i + 3)
         ELSE FindAllFrom(toks, i + 1)

FindAll(toks) == FindAllFrom(toks, 1)

\* infer_am_pm(raw, is_start).  int(hour_part) cannot fail on a captured
\* group, which holds digits.
infer_am_pm(raw, is_start) ==
    LET hour == raw.h
    IN  IF raw.mer # "" THEN raw
        ELSE IF is_start /\ 1 <= hour /\ hour <= 11
             THEN [raw EXCEPT !.mer = "am"]
        ELSE IF ~is_start /\ 1 <= hour /\ hour <= 7
             THEN [raw EXCEPT !.mer = "pm"]
        ELSE [raw EXCEPT !.mer = "pm"]

\* dateparser.parse(str, settings) followed by replace(year, month, day) of
\* today: the time of day of a 12-hour clock string.  A string that is no
\* 12-hour time ("13pm", "0pm", "9:75am") is outside dateparser's documented
\* formats: the library either gives None or reads the digits as a 24-hour
\* time, which of the two is fixed for the run (lenient).
DateparserParse(s, lenient) ==
    LET mins == IF s.hasMin THEN s.m ELSE 0
    IN  IF 1 <= s.h /\ s.h <= 12 /\ mins <= 59 /\ s.mer \in {"am", "pm"}
        THEN (s.h % 12) * 60 + mins + (IF s.mer = "pm" THEN 720 ELSE 0)
        ELSE IF lenient /\ s.h <= 23 /\ mins <= 59
             THEN s.h * 60 + mins
        ELSE None

\* The body of the for loop over matches, from match i on.  reversed tells
\* that the "Ignoring reversed time range" line was printed.
RECURSIVE ExtractFrom(_, _, _)
ExtractFrom(matches, i, lenient) ==
    IF i > Len(matches)
    THEN [start |-> None, end |-> None, reversed |-> FALSE]
    ELSE LET start_str == infer_am_pm(matches[i].start_raw, TRUE)
             end_str == infer_am_pm(matches[i].end_raw, FALSE)
             start_dt == DateparserParse(start_str, lenient)
             end_dt == DateparserParse(end_str, lenient)
         IN  IF start_dt # None /\ end_dt # None
             THEN IF start_dt > end_dt
                  THEN [start |-> None, end |-> None, reversed |-> TRUE]
                  ELSE [start |-> start_dt, end |-> end_dt, reversed |-> FALSE]
             ELSE ExtractFrom(matches, i + 1, lenient)

extract_time_range_from_text(t, lenient) ==
    ExtractFrom(FindAll(t.toks), 1, lenient)

-----------------------------------------------------------------------------
(* check_availability *)

\* An endpoint of a calendar item: kind "dateTime" is a timestamp with a UTC
\* offset (t, in minutes of the current day), kind "date" is a bare date (an
\* all-day item), kind "none" has neither field.
EndPoint(kind, t) == [kind |-> kind, t |-> t]

\* Overlaps with both comparisons made non-strict.
OverlapsClosed(new_start, new_end, event_start, event_end) ==
    new_start <= event_end /\ new_end >= event_start

\* The overlap condition of the if statement.
Overlaps(new_start, new_end, event_start, event_end) ==
    new_start < event_end /\ new_end > event_start

\* The for loop over events, from item i on.  new_start and new_end carry
\* the offset of America/New_York; datetime.fromisoformat of a bare date
\* carries none, and Python raises TypeError when it orders the two.  The
\* condition is evaluated left to right: event_end is compared first, and
\* event_start only when the first comparison is true.
RECURSIVE CheckFrom(_, _, _, _)
CheckFrom(new_start, new_end, evs, i) ==
    IF i > Len(evs) THEN "FREE"
    ELSE LET event_start == evs[i].start
             event_end == evs[i].end
         IN  IF event_start.kind # "none" /\ event_end.kind # "none"
             THEN IF event_end.kind = "date" THEN "RAISE"
                  ELSE IF event_start.kind = "date"
                       THEN IF new_start < event_end.t THEN "RAISE"
                            ELSE CheckFrom(new_start, new_end, evs, i + 1)
                  ELSE IF Overlaps(new_start, new_end, event_start.t, event_end.t)
                       THEN "CONFLICT"
                  ELSE CheckFrom(new_start, new_end, evs, i + 1)
             ELSE CheckFrom(new_start, new_end, evs, i + 1)

check_availability(new_start, new_end, evs) == CheckFrom(new_start, new_end, evs, 1)

-----------------------------------------------------------------------------
(* Inputs *)

Two_to_4 == <<Num(2), SepTok, Num(4)>>
Nine30_11 == <<NumM(9, 30), SepTok, Num(11)>>
Twelve_12 == <<Num(12), SepTok, Num(12)>>
Twelve30_12 == <<NumM(12, 30), SepTok, Num(12)>>
FivePm_2pm == <<Num(5), PmTok, SepTok, Num(2), PmTok>>

\* Token strings the capture returns in the runs of main_loop.
LoopToks == {<<>>, <<WordTok>>, Two_to_4, Nine30_11, Twelve_12, Twelve30_12,
             FivePm_2pm}
LoopTexts == {MkText(d, toks) : d \in Docs, toks \in LoopToks}

\* Times written in the texts given to the parser alone.
NumVals == {Num(2), Num(4), NumM(9, 30), Num(11), Num(12), NumM(12, 30), Num(13)}
Marks == {<<>>, <<AmTok>>, <<PmTok>>}
Phrase(a, ma, b, mb) == <<a>> \o ma \o <<SepTok>> \o <<b>> \o mb
MarkedPhrases ==
    {Phrase(p[1], p[2], p[3], p[4]) : p \in NumVals \X Marks \X NumVals \X Marks}

\* Times written in the texts of several time ranges.
CandVals == {Num(2), Num(4), Num(12), NumM(12, 30), Num(13)}
PlainPhrases == {Phrase(a, <<>>, b, <<>>) : a \in CandVals, b \in CandVals}

\* Texts of exactly n time ranges, joined by a word.
RECURSIVE PhraseSeqs(_)
PhraseSeqs(n) ==
    IF n = 0 THEN {<<>>}
    ELSE IF n = 1 THEN PlainPhrases
    ELSE {p \o <<WordTok>> \o q : p \in PlainPhrases, q \in PhraseSeqs(n - 1)}

\* Texts of one time range with or without markers, or of up to n ranges.
ParserToks(n) == MarkedPhrases \cup UNION {PhraseSeqs(k) : k \in 0..n}
CancelDoc == [lemmas |-> {"cancel"}, chunks |-> {"my office hours"}]
ParserTexts(n) == {MkText(CancelDoc, toks) : toks \in ParserToks(n)}

\* Calendar items a query returns.
EventTimes == {570, 720, 960}
EndPoints == {EndPoint("dateTime", t) : t \in EventTimes}
                 \cup {EndPoint("date", 0), EndPoint("none", 0)}
Events == {ev \in [start : EndPoints, end : EndPoints] :
               (ev.start.kind = "dateTime" /\ ev.end.kind = "dateTime")
                   => ev.start.t <= ev.end.t}
EventLists == UNION {[1..n -> Events] : n \in 0..MaxEvents}

-----------------------------------------------------------------------------
(* main_loop *)

\* The state variable of the orchestrator: the loop runs until its break.
phase == IF pc = "done" THEN "DONE" ELSE "WAITING"

\* text = read_whatsapp(): the captured text, or "" when the capture raises.
ReadWhatsapp ==
    /\ pc = "read"
    /\ \/ /\ \E t \in LoopTexts : text' = t
          /\ UNCHANGED printed
       \/ /\ text' = EmptyText
          /\ printed' = printed \cup {"Error reading WhatsApp"}
    /\ pc' = "classify"
    /\ UNCHANGED <<time_start, time_end, events, free, sent, created, raised,
                   dp_lenient>>

\* if message_indicates_cancellation(text): ... (else fall through to sleep)
Classify ==
    /\ pc = "classify"
    /\ pc' = IF message_indicates_cancellation(text) THEN "extract" ELSE "sleep"
    /\ UNCHANGED <<text, time_start, time_end, events, free, sent, created,
                   printed, raised, dp_lenient>>

\* time_start, time_end = extract_time_range_from_text(text)
\* if time_start and time_end: print(...) else: print(...)
Extract ==
    /\ pc = "extract"
    /\ LET r == extract_time_range_from_text(text, dp_lenient)
       IN  /\ time_start' = r.start
           /\ time_end' = r.end
           /\ IF r.start # None /\ r.end # None
              THEN /\ printed' = printed \cup {"Time range extracted"}
                   /\ pc' = "check"
              ELSE /\ printed' = printed
                        \cup {"Could not understand the time range"}
                        \cup (IF r.reversed THEN {"Ignoring reversed time range"}
                              ELSE {})
                   /\ pc' = "sleep"
    /\ UNCHANGED <<text, events, free, sent, created, raised, dp_lenient>>

\* CheckAvailability with the claim made whatever check_availability returns.
CheckAvailabilityNoElse ==
    /\ pc = "check"
    /\ \E evs \in EventLists :
         LET r == check_availability(time_start, time_end, evs)
         IN  /\ events' = evs
             /\ free' = r
             /\ raised' = IF r = "RAISE" THEN "TypeError" ELSE raised
             /\ pc' = IF r = "RAISE" THEN "crashed" ELSE "send"
    /\ UNCHANGED <<text, time_start, time_end, sent, created, printed,
                   dp_lenient>>

\* if check_availability(time_start, time_end): ... else: print(...)
\* The query, or the comparison of an all-day item, may raise; main_loop
\* catches nothing, so the exception ends the run.
CheckAvailability ==
    /\ pc = "check"
    /\ \/ /\ \E err \in {"HttpError 401", "TimeoutError"} : raised' = err
          /\ pc' = "crashed"
          /\ UNCHANGED <<events, free, printed>>
       \/ \E evs \in EventLists :
            LET r == check_availability(time_start, time_end, evs)
            IN  /\ events' = evs
                /\ free' = r
                /\ raised' = IF r = "RAISE" THEN "TypeError" ELSE raised
                /\ printed' = IF r = "CONFLICT"
                              THEN printed \cup {"Conflict with event", "Not free"}
                              ELSE printed
                /\ pc' = CASE r = "RAISE" -> "crashed"
                           [] r = "FREE" -> "send"
                           [] r = "CONFLICT" -> "sleep"
    /\ UNCHANGED <<text, time_start, time_end, sent, created, dp_lenient>>

\* send_whatsapp_reply("I'm free, I can take over!")
SendReply ==
    /\ pc = "send"
    /\ sent < MaxClaims
    /\ \/ /\ sent' = sent + 1
          /\ pc' = "create"
          /\ UNCHANGED raised
       \/ /\ raised' = "FailSafeException"
          /\ pc' = "crashed"
          /\ UNCHANGED sent
    /\ UNCHANGED <<text, time_start, time_end, events, free, created, printed,
                   dp_lenient>>

\* CreateEvent without the break: the loop goes on to sleep and poll.
CreateEventNoBreak ==
    /\ pc = "create"
    /\ created < MaxClaims
    /\ created' = created + 1
    /\ printed' = printed \cup {"Shift secured. Exiting."}
    /\ pc' = "sleep"
    /\ UNCHANGED <<text, time_start, time_end, events, free, sent, raised,
                   dp_lenient>>

\* create_calendar_event(time_start, time_end); print(...); break
CreateEvent ==
    /\ pc = "create"
    /\ created < MaxClaims
    /\ \/ /\ created' = created + 1
          /\ printed' = printed \cup {"Shift secured. Exiting."}
          /\ pc' = "done"
          /\ UNCHANGED raised
       \/ /\ raised' = "HttpError 500"
          /\ pc' = "crashed"
          /\ UNCHANGED <<created, printed>>
    /\ UNCHANGED <<text, time_start, time_end, events, free, sent, dp_lenient>>

\* time.sleep(10) and the next iteration.  The locals of the iteration are
\* dead here: each is assigned again before it is read.
Sleep ==
    /\ pc = "sleep"
    /\ pc' = "read"
    /\ text' = EmptyText
    /\ time_start' = None
    /\ time_end' = None
    /\ events' = <<>>
    /\ free' = "unset"
    /\ printed' = {}
    /\ UNCHANGED <<sent, created, raised, dp_lenient>>

Init ==
    /\ pc = "read"
    /\ text = EmptyText
    /\ time_start = None
    /\ time_end = None
    /\ events = <<>>
    /\ free = "unset"
    /\ sent = 0
    /\ created = 0
    /\ printed = {"Listening in on WhatsApp chatter"}
    /\ raised = "none"
    /\ dp_lenient \in BOOLEAN

Next ==
    \/ ReadWhatsapp
    \/ Classify
    \/ Extract
    \/ CheckAvailability
    \/ SendReply
    \/ CreateEvent
    \/ Sleep

Spec == Init /\ [][Next]_vars

-----------------------------------------------------------------------------
(* The parser alone: extract_time_range_from_text applied to a text that   *)
(* the classifier has accepted.                                            *)

ParserInit ==
    /\ pc = "extract"
    /\ text \in ParserTexts(MaxCands)
    /\ time_start = None
    /\ time_end = None
    /\ events = <<>>
    /\ free = "unset"
    /\ sent = 0
    /\ created = 0
    /\ printed = {}
    /\ raised = "none"
    /\ dp_lenient \in BOOLEAN

ParserNext == Extract

ParserSpec == ParserInit /\ [][ParserNext]_vars

(* The availability check alone: check_availability applied to an interval *)
(* the parser returns.                                                     *)

AvailInit ==
    /\ pc = "check"
    /\ dp_lenient \in BOOLEAN
    /\ text \in {t \in LoopTexts : message_indicates_cancellation(t)}
    /\ extract_time_range_from_text(text, dp_lenient).start # None
    /\ time_start = extract_time_range_from_text(text, dp_lenient).start
    /\ time_end = extract_time_range_from_text(text, dp_lenient).end
    /\ events = <<>>
    /\ free = "unset"
    /\ sent = 0
    /\ created = 0
    /\ printed = {"Time range extracted"}
    /\ raised = "none"

AvailNext == CheckAvailability

AvailSpec == AvailInit /\ [][AvailNext]_vars

-----------------------------------------------------------------------------
(* Claims *)

\* C1: in every run the reply is sent at most once and the calendar entry is
\* created at most once; the run is DONE only after one send and one
\* creation, and once it is DONE nothing happens any more (no capture,
\* classification, query, send or creation).
C1_AtMostOneClaim ==
    /\ [](/\ sent <= 1
          /\ created <= 1
          /\ (phase = "DONE" => sent = 1 /\ created = 1))
    /\ [][phase = "DONE" => UNCHANGED vars]_vars

\* C1 witness: the cycle of a FREE decision has sent the reply, created the
\* entry and ended the loop.
C1_Witness == pc = "done" /\ free = "FREE" /\ sent = 1 /\ created = 1

\* C2: a send or a creation happens only in a cycle whose text the
\* classifier accepts, whose parse is an interval and whose availability
\* check on that interval is FREE; a cycle whose check is CONFLICT sends
\* nothing, creates nothing, stays WAITING and goes to sleep, and the sleep
\* is followed by the next poll.
C2_ClaimOnlyWhenFree ==
    /\ [](/\ (pc \in {"send", "create", "done"} \/ sent > 0 \/ created > 0)
               => /\ message_indicates_cancellation(text)
                  /\ time_start # None /\ time_end # None
                  /\ extract_time_range_from_text(text, dp_lenient).start = time_start
                  /\ extract_time_range_from_text(text, dp_lenient).end = time_end
                  /\ free = "FREE"
                  /\ check_availability(time_start, time_end, events) = "FREE"
          /\ (/\ free # "unset"
              /\ check_availability(time_start, time_end, events) = "CONFLICT")
               => /\ pc = "sleep"
                  /\ phase = "WAITING"
                  /\ sent = 0
                  /\ created = 0)
    /\ [][pc = "sleep" => pc' = "read" /\ sent' = sent /\ created' = created]_vars

\* C2 witness: a cycle whose availability check found a conflict, asleep
\* before the next poll.
C2_Witness ==
    /\ pc = "sleep"
    /\ free = "CONFLICT"
    /\ message_indicates_cancellation(text)
    /\ time_start # None

\* C3: a schedule query that fails with an error that is no authorization
\* error does not end the run: the cycle claims nothing and the loop goes on
\* polling.
C3_QueryFailureKeepsPolling ==
    raised = "TimeoutError" => pc # "crashed" /\ phase = "WAITING"

\* C4: every interval the parser returns has start < end, strictly.
C4_StartBeforeEnd ==
    (pc = "check" /\ time_start # None) => time_start < time_end

\* C5: "2 to 4" parses to 14:00-16:00 and "9:30-11" parses to 09:30-11:00.
C5_GoldenCases ==
    pc # "extract" =>
        /\ text.toks = Two_to_4 => (time_start = 840 /\ time_end = 960)
        /\ text.toks = Nine30_11 => (time_start = 570 /\ time_end = 660)

\* C6: on items that all carry concrete timestamps, check_availability
\* answers CONFLICT exactly when some item has candidate.start < item.end
\* and candidate.end > item.start, and FREE otherwise; an item that only
\* touches the candidate at an endpoint does not conflict.
C6_HalfOpenOverlap ==
    (/\ pc \in {"send", "sleep", "crashed"}
     /\ raised \notin {"HttpError 401", "TimeoutError"}
     /\ \A i \in 1..Len(events) :
            events[i].start.kind = "dateTime" /\ events[i].end.kind = "dateTime")
        => free = IF \E i \in 1..Len(events) :
                        /\ time_start < events[i].end.t
                        /\ time_end > events[i].start.t
                  THEN "CONFLICT"
                  ELSE "FREE"

\* C6 witness: the check answered FREE on items with concrete timestamps,
\* one of which starts exactly where the candidate ends.
C6_Witness ==
    /\ pc = "send"
    /\ free = "FREE"
    /\ Len(events) >= 1
    /\ \A i \in 1..Len(events) :
           events[i].start.kind = "dateTime" /\ events[i].end.kind = "dateTime"
    /\ \E i \in 1..Len(events) :
           events[i].start.t = time_end /\ events[i].end.t > time_end

\* C7: when the send or the creation fails after a FREE decision, the run
\* prints which of the two halves succeeded.
C7_PartialClaimReported ==
    (pc = "crashed" /\ raised \in {"FailSafeException", "HttpError 500"})
        => \E line \in printed :
               line \in {"Reply sent", "Calendar entry created",
                         "Shift secured. Exiting."}

\* C8: the parser returns the first candidate, in order of appearance, that
\* resolves to a non-reversed interval: a valid candidate preceded only by
\* reversed or unresolvable ones is the result, and the result is None only
\* when no candidate is valid.
C8_FirstValidWins ==
    pc # "extract" =>
        LET ms == FindAll(text.toks)
            S(i) == DateparserParse(infer_am_pm(ms[i].start_raw, TRUE), dp_lenient)
            E(i) == DateparserParse(infer_am_pm(ms[i].end_raw, FALSE), dp_lenient)
            Valid(i) == S(i) # None /\ E(i) # None /\ S(i) < E(i)
            Skipped(i) == S(i) = None \/ E(i) = None \/ S(i) > E(i)
        IN  /\ \A i \in 1..Len(ms) :
                   (Valid(i) /\ \A j \in 1..(i - 1) : Skipped(j))
                       => (time_start = S(i) /\ time_end = E(i))
            /\ time_start = None => \A i \in 1..Len(ms) : ~Valid(i)

\* C9: a calendar item without a concrete start or end timestamp (a bare
\* date, or neither field) is skipped: the check raises nothing and answers
\* as it does on the items that carry both timestamps.
C9_IncompleteEntrySkipped ==
    (/\ pc \in {"send", "sleep", "crashed"}
     /\ raised \notin {"HttpError 401", "TimeoutError"})
        => LET Concrete(ev) == ev.start.kind = "dateTime" /\ ev.end.kind = "dateTime"
           IN  /\ free # "RAISE"
               /\ raised = "none"
               /\ free = check_availability(time_start, time_end,
                                            SelectSeq(events, Concrete))

\* C10: an endpoint written with an AM/PM marker is resolved with that
\* marker: the interval of "a [am|pm] to b [am|pm]" has the stated meridiem
\* at each marked endpoint and the inferred one at an unmarked endpoint.
C10_ExplicitMarkerKept ==
    pc # "extract" =>
        \A a \in NumVals, b \in NumVals, ma \in Marks, mb \in Marks :
            (text.toks = Phrase(a, ma, b, mb) /\ (ma # <<>> \/ mb # <<>>))
                => LET Stated(tok, mark) ==
                           [RawOf(tok) EXCEPT !.mer = IF mark = <<>> THEN "" ELSE mark[1].k]
                       S == DateparserParse(infer_am_pm(Stated(a, ma), TRUE), dp_lenient)
                       E == DateparserParse(infer_am_pm(Stated(b, mb), FALSE), dp_lenient)
                   IN  (S # None /\ E # None /\ S < E)
                           => (time_start = S /\ time_end = E)

=============================================================================
